---- MODULE Spec2Model ----
(***************************************************************************)
(* Calculations API: the arithmetic engine (compute_result), the request   *)
(* schemas, the BREAD handlers over the calculation store and the          *)
(* statistics functions.                                                   *)
(*                                                                         *)
(* Numbers are exact rationals <<n, d>> with d > 0 in lowest terms; the    *)
(* inputs of a request are integers (floats with an integral value).       *)
(* Strings that the code transforms (operation tags) are sequences of      *)
(* one-character strings, so that str.lower() is computed, not assumed.    *)
(***************************************************************************)
EXTENDS Integers, Sequences, FiniteSets, TLC

VARIABLES store, nextId, now, last, inflight

vars == <<store, nextId, now, last, inflight>>

----------------------------------------------------------------------------
(* Bounds *)

MaxRecs == 2

MaxTime == 1

----------------------------------------------------------------------------
(* Exact arithmetic on rationals *)

Abs(x) == IF x < 0 THEN -x ELSE x

RECURSIVE Gcd(_, _)
Gcd(a, b) == IF b = 0 THEN a ELSE Gcd(b, a % b)

Norm(n, d) ==
    LET g == Gcd(Abs(n), Abs(d))
        s == IF d < 0 THEN -1 ELSE 1
    IN  <<(s * n) \div g, (s * d) \div g>>

R(i) == <<i, 1>>

RatAdd(x, y) == Norm(x[1] * y[2] + y[1] * x[2], x[2] * y[2])

RatSub(x, y) == Norm(x[1] * y[2] - y[1] * x[2], x[2] * y[2])

RatMul(x, y) == Norm(x[1] * y[1], x[2] * y[2])

RatDiv(x, y) == Norm(x[1] * y[2], x[2] * y[1])

----------------------------------------------------------------------------
(* Operation tags as character sequences, and str.lower() *)

LowerOf ==
    [c \in {"A", "B", "C", "D", "I", "L", "M", "N", "O", "P", "R", "S", "T", "U", "V"} |->
        CASE c = "A" -> "a" [] c = "B" -> "b" [] c = "C" -> "c" [] c = "D" -> "d"
          [] c = "I" -> "i" [] c = "L" -> "l" [] c = "M" -> "m" [] c = "N" -> "n"
          [] c = "O" -> "o" [] c = "P" -> "p" [] c = "R" -> "r" [] c = "S" -> "s"
          [] c = "T" -> "t" [] c = "U" -> "u" [] c = "V" -> "v"]

lower(s) == [i \in 1..Len(s) |-> IF s[i] \in DOMAIN LowerOf THEN LowerOf[s[i]] ELSE s[i]]

addition == <<"a", "d", "d", "i", "t", "i", "o", "n">>

subtraction == <<"s", "u", "b", "t", "r", "a", "c", "t", "i", "o", "n">>

multiplication == <<"m", "u", "l", "t", "i", "p", "l", "i", "c", "a", "t", "i", "o", "n">>

division == <<"d", "i", "v", "i", "s", "i", "o", "n">>

(* Tags a caller may send: the four tags, other letter cases of them, and  *)
(* strings that are no tag in any case.                                    *)
Addition_Cap == <<"A", "d", "d", "i", "t", "i", "o", "n">>

SUBTRACTION_UP == <<"S", "U", "B", "T", "R", "A", "C", "T", "I", "O", "N">>

MultiPlication_Mix == <<"M", "u", "l", "t", "i", "P", "l", "i", "c", "a", "t", "i", "o", "n">>

DIVISION_UP == <<"D", "I", "V", "I", "S", "I", "O", "N">>

Division_Cap == <<"D", "i", "v", "i", "s", "i", "o", "n">>

modulus == <<"m", "o", "d", "u", "l", "u", "s">>

ADD_UP == <<"A", "D", "D">>

additions == <<"a", "d", "d", "i", "t", "i", "o", "n", "s">>

----------------------------------------------------------------------------
(* compute_result *)

InvalidInput == "Inputs must be a list with at least two numbers."

DivisionByZero == "Cannot divide by zero."

UnsupportedOperation == "Unsupported calculation type"

Ok(v) == [ok |-> TRUE, val |-> v]

Err(e) == [ok |-> FALSE, err |-> e]

(* sum(inputs): start at 0, add each element from the left *)
RECURSIVE SumLoop(_, _, _)
SumLoop(result, inputs, i) ==
    IF i > Len(inputs) THEN result
    ELSE SumLoop(RatAdd(result, R(inputs[i])), inputs, i + 1)

(* result = inputs[0]; for v in inputs[1:]: result -= v *)
RECURSIVE SubLoop(_, _, _)
SubLoop(result, inputs, i) ==
    IF i > Len(inputs) THEN result
    ELSE SubLoop(RatSub(result, R(inputs[i])), inputs, i + 1)

(* result = 1; for v in inputs: result *= v *)
RECURSIVE MulLoop(_, _, _)
MulLoop(result, inputs, i) ==
    IF i > Len(inputs) THEN result
    ELSE MulLoop(RatMul(result, R(inputs[i])), inputs, i + 1)

(* result = inputs[0]; for v in inputs[1:]: raise if v == 0; result /= v *)
RECURSIVE DivLoop(_, _, _)

(* the zero test applied to the dividend as well *)
RECURSIVE DivLoop_anyzero(_, _, _)
DivLoop_anyzero(result, inputs, i) ==
    IF i > Len(inputs) THEN Ok(result)
    ELSE IF inputs[i] = 0 \/ inputs[1] = 0 THEN Err(DivisionByZero)
    ELSE DivLoop_anyzero(RatDiv(result, R(inputs[i])), inputs, i + 1)

DivLoop(result, inputs, i) ==
    IF i > Len(inputs) THEN Ok(result)
    ELSE IF inputs[i] = 0 THEN Err(DivisionByZero)
    ELSE DivLoop(RatDiv(result, R(inputs[i])), inputs, i + 1)

(* the subtraction loop run over every input, the first one included *)
compute_result_suball(calc_type, inputs) ==
    IF Len(inputs) < 2 THEN Err(InvalidInput)
    ELSE LET t == lower(calc_type) IN
         IF t = addition THEN Ok(SumLoop(R(0), inputs, 1))
         ELSE IF t = subtraction THEN Ok(SubLoop(R(inputs[1]), inputs, 1))
         ELSE IF t = multiplication THEN Ok(MulLoop(R(1), inputs, 1))
         ELSE IF t = division THEN DivLoop(R(inputs[1]), inputs, 2)
         ELSE Err(UnsupportedOperation)

(* the tag compared as sent, without lower() *)
compute_result_nolower(calc_type, inputs) ==
    IF Len(inputs) < 2 THEN Err(InvalidInput)
    ELSE LET t == calc_type IN
         IF t = addition THEN Ok(SumLoop(R(0), inputs, 1))
         ELSE IF t = subtraction THEN Ok(SubLoop(R(inputs[1]), inputs, 2))
         ELSE IF t = multiplication THEN Ok(MulLoop(R(1), inputs, 1))
         ELSE IF t = division THEN DivLoop(R(inputs[1]), inputs, 2)
         ELSE Err(UnsupportedOperation)

compute_result(calc_type, inputs) ==
    IF Len(inputs) < 2 THEN Err(InvalidInput)
    ELSE LET t == lower(calc_type) IN
         IF t = addition THEN Ok(SumLoop(R(0), inputs, 1))
         ELSE IF t = subtraction THEN Ok(SubLoop(R(inputs[1]), inputs, 2))
         ELSE IF t = multiplication THEN Ok(MulLoop(R(1), inputs, 1))
         ELSE IF t = division THEN DivLoop(R(inputs[1]), inputs, 2)
         ELSE Err(UnsupportedOperation)

----------------------------------------------------------------------------
(* Request schemas (pydantic) *)

None == <<>>

Some(v) == <<v>>

CalculationType == {addition, subtraction, multiplication, division}

(* CalculationBase: type is one of the literals, inputs has min_items 2 *)
CalculationBase(body) ==
    /\ body.type \in CalculationType
    /\ Len(body.inputs) >= 2

(* any(x == 0 for x in v[1:]) *)
AnyZeroDivisor(v) == \E i \in 2..Len(v) : v[i] = 0

(* CalculationUpdate.validate_inputs_for_division; info.data holds the     *)
(* type only when the type field itself validated                          *)
validate_inputs_for_division(v, type) ==
    IF v # None
    THEN ~(type = Some(division) /\ AnyZeroDivisor(v[1]))
    ELSE TRUE

(* CalculationUpdate with the min_items constraint on inputs left out *)
CalculationUpdate_nolen(body) ==
    /\ body.type = None \/ body.type[1] \in CalculationType
    /\ validate_inputs_for_division(body.inputs, body.type)

(* CalculationUpdate: both fields optional, same constraints when present *)
CalculationUpdate(body) ==
    /\ body.type = None \/ body.type[1] \in CalculationType
    /\ body.inputs = None \/ Len(body.inputs[1]) >= 2
    /\ validate_inputs_for_division(body.inputs, body.type)

----------------------------------------------------------------------------
(* The Calculation entity *)

(* Calculation.create: the factory resolves the tag case-insensitively and *)
(* stores it in lowercase; it raises ValueError on an unknown tag          *)
Calculation_create(calculation_type, user_id, inputs, t) ==
    IF lower(calculation_type) \notin CalculationType THEN Err(UnsupportedOperation)
    ELSE Ok([user_id |-> user_id, type |-> lower(calculation_type), inputs |-> inputs,
             result |-> None, created_at |-> t, updated_at |-> t])

(* Calculation.get_result: the result re-derived from the record's fields *)
get_result(calc) == compute_result(calc.type, calc.inputs)

----------------------------------------------------------------------------
(* Responses; a handler returns the committed store and the response *)

NotFoundDetail == "Calculation not found."

BadIdDetail == "Invalid calculation id format."

Resp(s, status, detail, data) == [store |-> s, status |-> status, detail |-> detail, data |-> data]

(* request validation failure, raised by the framework before the handler *)
Unprocessable(s) == Resp(s, 422, "validation error", None)

(* an exception no handler catches *)
InternalError(s) == Resp(s, 500, "Internal Server Error", None)

(* UUID(calc_id): path ids 1..MaxRecs are well-formed, BadId is not *)
BadId == 0

IsUuid(calc_id) == calc_id # BadId

(* the lookup by id alone, without the owner filter *)
QueryOwned_anyowner(s, calc_id, user) ==
    IF calc_id \in DOMAIN s THEN <<s[calc_id]>> ELSE <<>>

(* db.query(Calculation).filter(id == calc_uuid, user_id == current_user.id).first() *)
QueryOwned(s, calc_id, user) ==
    IF calc_id \in DOMAIN s /\ s[calc_id].user_id = user THEN Some(s[calc_id]) ELSE None

(* db.add + db.commit of a new row / db.commit of a changed row / db.delete *)
Insert(s, id, calc) == [i \in DOMAIN s \cup {id} |-> IF i = id THEN calc ELSE s[i]]

Commit(s, id, calc) == [s EXCEPT ![id] = calc]

(* the row kept by a delete *)
Delete_kept(s, id) == s

Delete(s, id) == [i \in DOMAIN s \ {id} |-> s[i]]

----------------------------------------------------------------------------
(* main.py handlers *)

create_calculation(s, nid, t, user, body) ==
    IF ~CalculationBase(body) THEN Unprocessable(s)
    ELSE LET c == Calculation_create(body.type, user, body.inputs, t) IN
         IF ~c.ok THEN Resp(s, 400, c.err, None)
         ELSE LET r == get_result(c.val) IN
              IF ~r.ok THEN Resp(s, 400, r.err, None)
              ELSE LET new == [c.val EXCEPT !.result = r.val] IN
                   Resp(Insert(s, nid, new), 201, "", Some(new))

get_calculation(s, user, calc_id) ==
    IF ~IsUuid(calc_id) THEN Resp(s, 400, BadIdDetail, None)
    ELSE LET q == QueryOwned(s, calc_id, user) IN
         IF q = None THEN Resp(s, 404, NotFoundDetail, None)
         ELSE Resp(s, 200, "", q)

(* the new inputs committed before the result is computed *)
update_calculation_commitfirst(s, t, user, calc_id, body) ==
    IF ~CalculationUpdate(body) THEN Unprocessable(s)
    ELSE IF ~IsUuid(calc_id) THEN Resp(s, 400, BadIdDetail, None)
    ELSE LET q == QueryOwned(s, calc_id, user) IN
         IF q = None THEN Resp(s, 404, NotFoundDetail, None)
         ELSE IF body.inputs # None
              THEN LET c1 == [q[1] EXCEPT !.inputs = body.inputs[1]]
                       r  == get_result(c1)
                   IN  IF ~r.ok THEN InternalError(Commit(s, calc_id, c1))
                       ELSE LET c2 == [c1 EXCEPT !.result = r.val, !.updated_at = t] IN
                            Resp(Commit(s, calc_id, c2), 200, "", Some(c2))
              ELSE LET c2 == [q[1] EXCEPT !.updated_at = t] IN
                   Resp(Commit(s, calc_id, c2), 200, "", Some(c2))

(* updated_at refreshed only by an update that carries inputs *)
update_calculation_keepstamp(s, t, user, calc_id, body) ==
    IF ~CalculationUpdate(body) THEN Unprocessable(s)
    ELSE IF ~IsUuid(calc_id) THEN Resp(s, 400, BadIdDetail, None)
    ELSE LET q == QueryOwned(s, calc_id, user) IN
         IF q = None THEN Resp(s, 404, NotFoundDetail, None)
         ELSE IF body.inputs # None
              THEN LET c1 == [q[1] EXCEPT !.inputs = body.inputs[1]]
                       r  == get_result(c1)
                   IN  IF ~r.ok THEN InternalError(s)
                       ELSE LET c2 == [c1 EXCEPT !.result = r.val, !.updated_at = t] IN
                            Resp(Commit(s, calc_id, c2), 200, "", Some(c2))
              ELSE Resp(s, 200, "", q)

update_calculation(s, t, user, calc_id, body) ==
    IF ~CalculationUpdate(body) THEN Unprocessable(s)
    ELSE IF ~IsUuid(calc_id) THEN Resp(s, 400, BadIdDetail, None)
    ELSE LET q == QueryOwned(s, calc_id, user) IN
         IF q = None THEN Resp(s, 404, NotFoundDetail, None)
         ELSE IF body.inputs # None
              THEN LET c1 == [q[1] EXCEPT !.inputs = body.inputs[1]]
                       r  == get_result(c1)
                   IN  IF ~r.ok THEN InternalError(s)
                       ELSE LET c2 == [c1 EXCEPT !.result = r.val, !.updated_at = t] IN
                            Resp(Commit(s, calc_id, c2), 200, "", Some(c2))
              ELSE LET c2 == [q[1] EXCEPT !.updated_at = t] IN
                   Resp(Commit(s, calc_id, c2), 200, "", Some(c2))

delete_calculation(s, user, calc_id) ==
    IF ~IsUuid(calc_id) THEN Resp(s, 400, BadIdDetail, None)
    ELSE LET q == QueryOwned(s, calc_id, user) IN
         IF q = None THEN Resp(s, 404, NotFoundDetail, None)
         ELSE Resp(Delete(s, calc_id), 204, "", None)

----------------------------------------------------------------------------
(* models/calculation.py handlers (the patched routes) *)

create_calculation_patched(s, nid, t, user, body) ==
    IF ~CalculationBase(body) THEN Unprocessable(s)
    ELSE LET c == Calculation_create(body.type, user, body.inputs, t) IN
         IF ~c.ok THEN InternalError(s)
         ELSE LET r == compute_result(c.val.type, c.val.inputs) IN
              IF ~r.ok THEN InternalError(s)
              ELSE LET new == [c.val EXCEPT !.result = r.val] IN
                   Resp(Insert(s, nid, new), 201, "", Some(new))

get_calculation_patched(s, user, calc_id) ==
    IF ~IsUuid(calc_id) THEN Resp(s, 400, BadIdDetail, None)
    ELSE LET calc == QueryOwned(s, calc_id, user) IN
         IF calc = None THEN Resp(s, 404, NotFoundDetail, None)
         ELSE Resp(s, 200, "", calc)

(* x or y: the left operand unless it is None (or empty) *)
OrElse(opt, dflt) == IF opt = None \/ opt[1] = <<>> THEN dflt ELSE opt[1]

(* the result recomputed only when the request carries inputs *)
update_calculation_patched_stale(s, t, user, calc_id, body) ==
    IF ~CalculationUpdate(body) THEN Unprocessable(s)
    ELSE IF ~IsUuid(calc_id) THEN Resp(s, 400, BadIdDetail, None)
    ELSE LET calc == QueryOwned(s, calc_id, user) IN
         IF calc = None THEN Resp(s, 404, NotFoundDetail, None)
         ELSE LET new_type   == OrElse(body.type, calc[1].type)
                  new_inputs == OrElse(body.inputs, calc[1].inputs)
                  new_result == compute_result(new_type, new_inputs)
              IN  IF ~new_result.ok THEN Resp(s, 400, new_result.err, None)
                  ELSE LET c2 == [calc[1] EXCEPT !.type = new_type, !.inputs = new_inputs,
                                                 !.result = IF body.inputs = None THEN @
                                                            ELSE new_result.val,
                                                 !.updated_at = t]
                       IN  Resp(Commit(s, calc_id, c2), 200, "", Some(c2))

update_calculation_patched(s, t, user, calc_id, body) ==
    IF ~CalculationUpdate(body) THEN Unprocessable(s)
    ELSE IF ~IsUuid(calc_id) THEN Resp(s, 400, BadIdDetail, None)
    ELSE LET calc == QueryOwned(s, calc_id, user) IN
         IF calc = None THEN Resp(s, 404, NotFoundDetail, None)
         ELSE LET new_type   == OrElse(body.type, calc[1].type)
                  new_inputs == OrElse(body.inputs, calc[1].inputs)
                  new_result == compute_result(new_type, new_inputs)
              IN  IF ~new_result.ok THEN Resp(s, 400, new_result.err, None)
                  ELSE LET c2 == [calc[1] EXCEPT !.type = new_type, !.inputs = new_inputs,
                                                 !.result = new_result.val,
                                                 !.updated_at = t]
                       IN  Resp(Commit(s, calc_id, c2), 200, "", Some(c2))

delete_calculation_patched(s, user, calc_id) ==
    IF ~IsUuid(calc_id) THEN Resp(s, 400, BadIdDetail, None)
    ELSE LET calc == QueryOwned(s, calc_id, user) IN
         IF calc = None THEN Resp(s, 404, NotFoundDetail, None)
         ELSE Resp(Delete(s, calc_id), 204, "", None)

----------------------------------------------------------------------------
(* statistics.py *)

RecentLimit == 10

TrendDays == 30

PageSizeMax == 100

(* round(x, 2), ties to even *)
Round2(x) ==
    LET n == 100 * x[1]
        d == x[2]
        q == n \div d
        r == n - q * d
        up == IF 2 * r > d THEN 1
              ELSE IF 2 * r < d THEN 0
              ELSE IF q % 2 = 0 THEN 0 ELSE 1
    IN  Norm(q + up, 100)

RatLess(x, y) == x[1] * y[2] < y[1] * x[2]

(* the query without the user_id filter *)
OwnedBy_all(s, user_id) == DOMAIN s

(* db.query(Calculation).filter(Calculation.user_id == user_id) *)
OwnedBy(s, user_id) == {i \in DOMAIN s : s[i].user_id = user_id}

(* the orders in which a query without ORDER BY may return the rows *)
AnyOrder(ids) ==
    {o \in [1..Cardinality(ids) -> ids] : \A i, j \in DOMAIN o : i # j => o[i] # o[j]}

(* the rows in the order of their ids, and that order reversed *)
RECURSIVE ByIdAsc(_)
ByIdAsc(ids) ==
    IF ids = {} THEN <<>>
    ELSE LET m == CHOOSE i \in ids : \A j \in ids : i <= j IN <<m>> \o ByIdAsc(ids \ {m})

Reversed(rows) == [i \in DOMAIN rows |-> rows[Len(rows) + 1 - i]]

(* the row orders drawn for a query without ORDER BY: every order of a     *)
(* table of up to MaxRecs + 1 rows, the id order and its reverse of a      *)
(* larger one                                                              *)
RowOrders(ids) ==
    IF Cardinality(ids) <= MaxRecs + 1 THEN AnyOrder(ids)
    ELSE {ByIdAsc(ids), Reversed(ByIdAsc(ids))}

(* order_by(desc(Calculation.created_at)): rows of equal created_at in any order *)
RECURSIVE ByCreatedDesc(_, _)
ByCreatedDesc(s, ids) ==
    IF ids = {} THEN {<<>>}
    ELSE LET newest == {i \in ids : \A j \in ids : s[i].created_at >= s[j].created_at}
         IN  UNION {{<<i>> \o rest : rest \in ByCreatedDesc(s, ids \ {i})} : i \in newest}

(* the offset ignored / the limit ignored *)
OffsetLimit_nooffset(rows, k, n) ==
    SubSeq(rows, 1, IF n < Len(rows) THEN n ELSE Len(rows))

OffsetLimit_nolimit(rows, k, n) ==
    SubSeq(rows, k + 1, Len(rows))

(* .offset(k).limit(n) *)
OffsetLimit(rows, k, n) ==
    SubSeq(rows, k + 1, IF k + n < Len(rows) THEN k + n ELSE Len(rows))

RECURSIVE SumOver(_, _, _)
SumOver(rows, f, i) ==
    IF i > Len(rows) THEN R(0) ELSE RatAdd(f[rows[i]], SumOver(rows, f, i + 1))

(* the serialised record of the history and summary listings *)
Serialise(s, id) ==
    [id |-> id, type |-> s[id].type, inputs |-> s[id].inputs, result |-> s[id].result,
     created_at |-> s[id].created_at, updated_at |-> s[id].updated_at]

(* max(operations_breakdown.items(), key=count): the first key, in the     *)
(* order the rows inserted the keys, whose count is the largest            *)
MostUsed(s, rows, breakdown) ==
    LET best == CHOOSE i \in DOMAIN rows :
                    /\ \A t \in DOMAIN breakdown : breakdown[t] <= breakdown[lower(s[rows[i]].type)]
                    /\ \A j \in 1..(i - 1) :
                           breakdown[lower(s[rows[j]].type)] < breakdown[lower(s[rows[i]].type)]
    IN  lower(s[rows[best]].type)

(* func.date(created_at) *)
TicksPerDay == 2

DateOf(ts) == ts \div TicksPerDay

get_calculations_by_day(s, user_id, days, t) ==
    LET end_date   == t
        start_date == end_date - days * TicksPerDay
        hit   == {i \in OwnedBy(s, user_id) :
                      s[i].created_at >= start_date /\ s[i].created_at <= end_date}
        dates == {DateOf(s[i].created_at) : i \in hit}
    IN  [d \in dates |-> Cardinality({i \in hit : DateOf(s[i].created_at) = d})]

(* calculate_user_statistics for one order of the rows of each query *)
user_statistics(s, user_id, t, rows, recent) ==
    LET total_calculations == Len(rows) IN
    IF total_calculations = 0
    THEN [total_calculations |-> 0, operations_breakdown |-> <<>>,
          average_inputs_count |-> None, average_result |-> None,
          most_used_operation |-> None, recent_calculations |-> <<>>,
          calculations_by_day |-> <<>>]
    ELSE LET ids == {rows[i] : i \in DOMAIN rows}
             ops == {lower(s[i].type) : i \in ids}
             operations_breakdown ==
                 [o \in ops |-> Cardinality({i \in ids : lower(s[i].type) = o})]
             result_sum == SumOver(rows, [i \in ids |-> s[i].result], 1)
             inputs_count_sum == SumOver(rows, [i \in ids |-> R(Len(s[i].inputs))], 1)
         IN  [total_calculations |-> total_calculations,
              operations_breakdown |-> operations_breakdown,
              average_inputs_count |-> Some(Round2(RatDiv(inputs_count_sum, R(total_calculations)))),
              average_result |-> Some(Round2(RatDiv(result_sum, R(total_calculations)))),
              most_used_operation |-> Some(MostUsed(s, rows, operations_breakdown)),
              recent_calculations |-> [i \in DOMAIN recent |-> Serialise(s, recent[i])],
              calculations_by_day |-> get_calculations_by_day(s, user_id, TrendDays, t)]

(* calculate_user_statistics: every response the call may give *)
calculate_user_statistics(s, user_id, t) ==
    {user_statistics(s, user_id, t, rows, OffsetLimit(desc, 0, RecentLimit)) :
        rows \in RowOrders(OwnedBy(s, user_id)), desc \in ByCreatedDesc(s, OwnedBy(s, user_id))}

InvalidPage == "Page number must be >= 1"

InvalidPageSize == "Page size must be between 1 and 100"

(* the bounds checks without the upper bound of the page size *)
validate_page_nomax(page, page_size) ==
    IF page < 1 THEN Err(InvalidPage)
    ELSE IF page_size < 1 THEN Err(InvalidPageSize)
    ELSE Ok(TRUE)

(* the two bounds checks that open get_paginated_history *)
validate_page(page, page_size) ==
    IF page < 1 THEN Err(InvalidPage)
    ELSE IF page_size < 1 \/ page_size > PageSizeMax THEN Err(InvalidPageSize)
    ELSE Ok(TRUE)

(* get_paginated_history: every response the call may give *)
get_paginated_history(s, user_id, page, page_size, operation_filter) ==
    IF ~validate_page(page, page_size).ok THEN {validate_page(page, page_size)}
    ELSE LET query == IF operation_filter # None /\ operation_filter[1] # <<>>
                      THEN {i \in OwnedBy(s, user_id) :
                                lower(s[i].type) = lower(operation_filter[1])}
                      ELSE OwnedBy(s, user_id)
             total == Cardinality(query)
             total_pages == IF total > 0 THEN (total + page_size - 1) \div page_size ELSE 0
         IN  {Ok([calculations |->
                      LET rows == OffsetLimit(desc, (page - 1) * page_size, page_size)
                      IN  [i \in DOMAIN rows |->
                              [id |-> rows[i], type |-> s[rows[i]].type,
                               inputs |-> s[rows[i]].inputs, result |-> s[rows[i]].result,
                               user_id |-> s[rows[i]].user_id,
                               created_at |-> s[rows[i]].created_at,
                               updated_at |-> s[rows[i]].updated_at]],
                  total |-> total, page |-> page, page_size |-> page_size,
                  total_pages |-> total_pages]) :
                desc \in ByCreatedDesc(s, query)}

(* the status of GET /api/history: the Query bounds of page and page_size  *)
(* are checked by the framework, then a ValueError of the call is a 400    *)
get_history_status(page, page_size, out) ==
    IF page < 1 \/ page_size < 1 \/ page_size > PageSizeMax THEN 422
    ELSE IF ~out.ok THEN 400
    ELSE 200

MinOf(S) == CHOOSE x \in S : \A y \in S : ~RatLess(y, x)

MaxOf(S) == CHOOSE x \in S : \A y \in S : ~RatLess(x, y)

(* zeros in place of nulls when no record matches *)
get_operation_statistics_zeros(s, user_id, operation) ==
    LET calculations == {i \in OwnedBy(s, user_id) : lower(s[i].type) = lower(operation)}
        n == Cardinality(calculations)
    IN  IF n = 0
        THEN [count |-> 0, average_inputs_count |-> Some(R(0)), average_result |-> Some(R(0)),
              min_result |-> Some(R(0)), max_result |-> Some(R(0))]
        ELSE LET rows == CHOOSE o \in RowOrders(calculations) : TRUE
                 result_values == {s[i].result : i \in calculations}
             IN  [count |-> n,
                  average_inputs_count |->
                      Some(Round2(RatDiv(SumOver(rows, [i \in calculations |-> R(Len(s[i].inputs))], 1), R(n)))),
                  average_result |->
                      Some(Round2(RatDiv(SumOver(rows, [i \in calculations |-> s[i].result], 1), R(n)))),
                  min_result |-> Some(Round2(MinOf(result_values))),
                  max_result |-> Some(Round2(MaxOf(result_values)))]

get_operation_statistics(s, user_id, operation) ==
    LET calculations == {i \in OwnedBy(s, user_id) : lower(s[i].type) = lower(operation)}
        n == Cardinality(calculations)
    IN  IF n = 0
        THEN [count |-> 0, average_inputs_count |-> None, average_result |-> None,
              min_result |-> None, max_result |-> None]
        ELSE LET rows == CHOOSE o \in RowOrders(calculations) : TRUE
                 result_values == {s[i].result : i \in calculations}
             IN  [count |-> n,
                  average_inputs_count |->
                      Some(Round2(RatDiv(SumOver(rows, [i \in calculations |-> R(Len(s[i].inputs))], 1), R(n)))),
                  average_result |->
                      Some(Round2(RatDiv(SumOver(rows, [i \in calculations |-> s[i].result], 1), R(n)))),
                  min_result |-> Some(Round2(MinOf(result_values))),
                  max_result |-> Some(Round2(MaxOf(result_values)))]

(* list_calculations of main.py (no ORDER BY) and of the patched routes *)
list_calculations(s, user_id) ==
    {[i \in DOMAIN rows |-> Serialise(s, rows[i]) @@ [user_id |-> s[rows[i]].user_id]] :
        rows \in RowOrders(OwnedBy(s, user_id))}

list_calculations_patched(s, user_id) ==
    {[i \in DOMAIN rows |-> Serialise(s, rows[i]) @@ [user_id |-> s[rows[i]].user_id]] :
        rows \in ByCreatedDesc(s, OwnedBy(s, user_id))}

----------------------------------------------------------------------------
(* Callers and the requests they send *)

Users == {"u1", "u2"}

ReqTags == {addition, division, Division_Cap, modulus}

ReqInputs == {<<1>>, <<4, 2>>, <<1, 0>>}

CreateBodies == [type : ReqTags, inputs : ReqInputs]

UpdateTags == {addition, division, modulus}

UpdateBodies == [type : {None} \cup {Some(t) : t \in UpdateTags},
                 inputs : {None} \cup {Some(i) : i \in ReqInputs}]

PathIds == {BadId} \cup (1..MaxRecs)

(* the database sessions of requests served at the same time, and a        *)
(* session that serves no request                                          *)
Sessions == {"a", "b"}

Idle == [pc |-> "idle"]

----------------------------------------------------------------------------
(* State machine *)

(* what the path id of a request refers to, seen from the caller *)
Target(s, user, calc_id) ==
    IF ~IsUuid(calc_id) THEN "malformed"
    ELSE IF calc_id \notin DOMAIN s THEN "missing"
    ELSE IF s[calc_id].user_id = user THEN "own"
    ELSE "foreign"

Fields == {"user_id", "type", "inputs", "result", "created_at", "updated_at"}

(* the fields of record calc_id in which two stores differ *)
Changed(s1, s2, calc_id) ==
    IF calc_id \in DOMAIN s1 /\ calc_id \in DOMAIN s2
    THEN {f \in Fields : s1[calc_id][f] # s2[calc_id][f]}
    ELSE {}

(* the form of a request body: an inputs list of fewer than two elements,  *)
(* a tag that is one of the four tags in another letter case (on inputs    *)
(* the lowercase tag computes a result for), or neither                    *)
Form(type, inputs) ==
    IF inputs # None /\ Len(inputs[1]) < 2 THEN "short_inputs"
    ELSE IF /\ type # None /\ inputs # None
            /\ type[1] \notin CalculationType
            /\ lower(type[1]) \in CalculationType
            /\ compute_result(lower(type[1]), inputs[1]).ok
         THEN "other_case_tag"
    ELSE "plain"

(* the last request served: operation, what it addressed, the form of its  *)
(* body, response status, and the fields of the addressed record it changed *)
Called(op, user, calc_id, form, out) ==
    [op |-> op, target |-> Target(store, user, calc_id), form |-> form,
     status |-> out.status, changed |-> Changed(store, out.store, calc_id)]

Read(op, user, status) ==
    [op |-> op, target |-> "own", form |-> "plain", status |-> status, changed |-> {}]

Pages == {0, 1, 2}

PageSizes == {0, 1, 2, 101}

Filters == {None, Some(addition), Some(Division_Cap)}

Init ==
    /\ store = <<>>
    /\ nextId = 1
    /\ now = 0
    /\ last = [op |-> "none", target |-> "missing", form |-> "plain", status |-> 0, changed |-> {}]
    /\ inflight = [x \in Sessions |-> Idle]

(* the wall clock advances between requests *)
Tick ==
    /\ now < MaxTime
    /\ now' = now + 1
    /\ UNCHANGED <<store, nextId, last, inflight>>

CreateCalculation ==
    \E user \in Users, body \in CreateBodies :
        LET out == create_calculation(store, nextId, now, user, body) IN
        /\ out.status = 201 => nextId <= MaxRecs
        /\ store' = out.store
        /\ nextId' = IF out.status = 201 THEN nextId + 1 ELSE nextId
        /\ last' = Called("create", user, nextId, Form(Some(body.type), Some(body.inputs)), out)
        /\ UNCHANGED <<now, inflight>>

CreateCalculationPatched ==
    \E user \in Users, body \in CreateBodies :
        LET out == create_calculation_patched(store, nextId, now, user, body) IN
        /\ out.status = 201 => nextId <= MaxRecs
        /\ store' = out.store
        /\ nextId' = IF out.status = 201 THEN nextId + 1 ELSE nextId
        /\ last' = Called("create", user, nextId, Form(Some(body.type), Some(body.inputs)), out)
        /\ UNCHANGED <<now, inflight>>

GetCalculation ==
    \E user \in Users, calc_id \in PathIds :
        LET out == get_calculation(store, user, calc_id) IN
        /\ store' = out.store
        /\ last' = Called("get", user, calc_id, "plain", out)
        /\ UNCHANGED <<nextId, now, inflight>>

GetCalculationPatched ==
    \E user \in Users, calc_id \in PathIds :
        LET out == get_calculation_patched(store, user, calc_id) IN
        /\ store' = out.store
        /\ last' = Called("get", user, calc_id, "plain", out)
        /\ UNCHANGED <<nextId, now, inflight>>

UpdateCalculation ==
    \E user \in Users, calc_id \in PathIds, body \in UpdateBodies :
        LET out == update_calculation(store, now, user, calc_id, body) IN
        /\ store' = out.store
        /\ last' = Called("update", user, calc_id, Form(body.type, body.inputs), out)
        /\ UNCHANGED <<nextId, now, inflight>>

UpdateCalculationPatched ==
    \E user \in Users, calc_id \in PathIds, body \in UpdateBodies :
        LET out == update_calculation_patched(store, now, user, calc_id, body) IN
        /\ store' = out.store
        /\ last' = Called("update", user, calc_id, Form(body.type, body.inputs), out)
        /\ UNCHANGED <<nextId, now, inflight>>

DeleteCalculation ==
    \E user \in Users, calc_id \in PathIds :
        LET out == delete_calculation(store, user, calc_id) IN
        /\ store' = out.store
        /\ last' = Called("delete", user, calc_id, "plain", out)
        /\ UNCHANGED <<nextId, now, inflight>>

DeleteCalculationPatched ==
    \E user \in Users, calc_id \in PathIds :
        LET out == delete_calculation_patched(store, user, calc_id) IN
        /\ store' = out.store
        /\ last' = Called("delete", user, calc_id, "plain", out)
        /\ UNCHANGED <<nextId, now, inflight>>

ListCalculations ==
    \E user \in Users :
        /\ list_calculations(store, user) # {}
        /\ last' = Read("list", user, 200)
        /\ UNCHANGED <<store, nextId, now, inflight>>

ListCalculationsPatched ==
    \E user \in Users :
        /\ list_calculations_patched(store, user) # {}
        /\ last' = Read("list", user, 200)
        /\ UNCHANGED <<store, nextId, now, inflight>>

(* GET /api/statistics *)
GetStatistics ==
    \E user \in Users :
        /\ calculate_user_statistics(store, user, now) # {}
        /\ last' = Read("statistics", user, 200)
        /\ UNCHANGED <<store, nextId, now, inflight>>

(* GET /api/history: the Query bounds are checked before the handler runs, *)
(* a ValueError of get_paginated_history becomes a 400                     *)
GetHistory ==
    \E user \in Users, page \in Pages, page_size \in PageSizes, operation \in Filters :
        \E out \in get_paginated_history(store, user, page, page_size, operation) :
            /\ last' = Read("history", user, get_history_status(page, page_size, out))
            /\ UNCHANGED <<store, nextId, now, inflight>>

(* GET /api/statistics/operation/{operation} *)
GetOperationStats ==
    \E user \in Users, operation \in ReqTags :
        /\ get_operation_statistics(store, user, operation).count >= 0
        /\ last' = Read("operation_statistics", user, 200)
        /\ UNCHANGED <<store, nextId, now, inflight>>

Next ==
    \/ Tick
    \/ ListCalculations
    \/ ListCalculationsPatched
    \/ GetStatistics
    \/ GetHistory
    \/ GetOperationStats
    \/ CreateCalculation
    \/ CreateCalculationPatched
    \/ GetCalculation
    \/ GetCalculationPatched
    \/ UpdateCalculation
    \/ UpdateCalculationPatched
    \/ DeleteCalculation
    \/ DeleteCalculationPatched

Spec == Init /\ [][Next]_vars

----------------------------------------------------------------------------
(* Claims about the stored records and the BREAD handlers, checked under   *)
(* Spec. A formula that quantifies over requests states what every request *)
(* a caller may send in the current state would return and commit.         *)

Outcome(r) == [status |-> r.status, detail |-> r.detail, data |-> r.data]

(* C1: every stored record's result is compute(type, inputs) of its        *)
(* currently stored type and inputs.                                       *)
C1_ResultConsistent ==
    \A id \in DOMAIN store :
        compute_result(store[id].type, store[id].inputs) = Ok(store[id].result)

C1_Witness ==
    /\ last.op = "update"
    /\ last.status = 200
    /\ {"inputs", "result"} \subseteq last.changed

(* C2: a get, update or delete by a caller on a record of another owner    *)
(* gives the response the same request gives when the id does not exist,   *)
(* which is 404 'Calculation not found.' for every request that passes     *)
(* request validation, and leaves the store unchanged.                     *)
C2_ForeignIsNotFound ==
    \A user \in Users, calc_id \in DOMAIN store :
        store[calc_id].user_id # user =>
            LET absent == Delete(store, calc_id) IN
            /\ get_calculation(store, user, calc_id) = Resp(store, 404, NotFoundDetail, None)
            /\ get_calculation_patched(store, user, calc_id) = Resp(store, 404, NotFoundDetail, None)
            /\ delete_calculation(store, user, calc_id) = Resp(store, 404, NotFoundDetail, None)
            /\ delete_calculation_patched(store, user, calc_id) = Resp(store, 404, NotFoundDetail, None)
            /\ Outcome(get_calculation(absent, user, calc_id)) = Outcome(Resp(store, 404, NotFoundDetail, None))
            /\ Outcome(delete_calculation(absent, user, calc_id)) = Outcome(Resp(store, 404, NotFoundDetail, None))
            /\ \A body \in UpdateBodies :
                   LET r  == update_calculation(store, now, user, calc_id, body)
                       rp == update_calculation_patched(store, now, user, calc_id, body)
                   IN  /\ r.store = store
                       /\ rp.store = store
                       /\ Outcome(r) = Outcome(update_calculation(absent, now, user, calc_id, body))
                       /\ Outcome(rp) = Outcome(update_calculation_patched(absent, now, user, calc_id, body))
                       /\ CalculationUpdate(body) =>
                              /\ Outcome(r) = Outcome(Resp(store, 404, NotFoundDetail, None))
                              /\ Outcome(rp) = Outcome(Resp(store, 404, NotFoundDetail, None))

C2_Witness ==
    /\ last.op \in {"get", "update", "delete"}
    /\ last.target = "foreign"
    /\ last.status = 404
    /\ store # <<>>

(* The records of one user, and everything the read routes return for a   *)
(* user: each entry is the set of responses the call may give              *)
OnlyOf(s, user) == [i \in {j \in DOMAIN s : s[j].user_id = user} |-> s[i]]

Aggregates(s, user, t) ==
    [summary |-> calculate_user_statistics(s, user, t),
     history |-> [q \in Pages \X PageSizes \X Filters |->
                     get_paginated_history(s, user, q[1], q[2], q[3])],
     operation |-> [o \in ReqTags |-> get_operation_statistics(s, user, o)],
     listing |-> list_calculations(s, user),
     listing_patched |-> list_calculations_patched(s, user)]

RowsNamed(s, user, t) ==
    LET a == Aggregates(s, user, t) IN
    UNION {{x.recent_calculations[i].id : i \in DOMAIN x.recent_calculations} : x \in a.summary}
    \cup UNION {UNION {IF r.ok THEN {r.val.calculations[i].id : i \in DOMAIN r.val.calculations}
                       ELSE {} : r \in a.history[q]} : q \in DOMAIN a.history}
    \cup UNION {{l[i].id : i \in DOMAIN l} : l \in a.listing \cup a.listing_patched}

(* C3: what the listing, the summary, the history and the operation        *)
(* summary return for a user is a function of that user's records alone,   *)
(* names no record of another owner, and no request of another user        *)
(* changes the records it is computed from.                                *)
C3_AggregatesOwnerOnly ==
    \A user \in Users :
        /\ Aggregates(store, user, now) = Aggregates(OnlyOf(store, user), user, now)
        /\ \A i \in RowsNamed(store, user, now) : store[i].user_id = user
        /\ \A other \in Users \ {user} :
               /\ \A body \in CreateBodies :
                      /\ OnlyOf(create_calculation(store, nextId, now, other, body).store, user)
                             = OnlyOf(store, user)
                      /\ OnlyOf(create_calculation_patched(store, nextId, now, other, body).store, user)
                             = OnlyOf(store, user)
               /\ \A calc_id \in PathIds :
                      /\ OnlyOf(delete_calculation(store, other, calc_id).store, user) = OnlyOf(store, user)
                      /\ OnlyOf(delete_calculation_patched(store, other, calc_id).store, user)
                             = OnlyOf(store, user)
                      /\ \A body \in UpdateBodies :
                             /\ OnlyOf(update_calculation(store, now, other, calc_id, body).store, user)
                                    = OnlyOf(store, user)
                             /\ OnlyOf(update_calculation_patched(store, now, other, calc_id, body).store, user)
                                    = OnlyOf(store, user)

C3_Witness ==
    /\ last.op \in {"statistics", "history", "operation_statistics", "list"}
    /\ last.status = 200
    /\ \A user \in Users : \E i \in DOMAIN store : store[i].user_id = user

(* C4: a create or update that does not succeed, every validation failure  *)
(* included, commits nothing: the store after it is the store before it.   *)
C4_FailureLeavesStore ==
    /\ \A user \in Users, body \in CreateBodies :
           LET r  == create_calculation(store, nextId, now, user, body)
               rp == create_calculation_patched(store, nextId, now, user, body)
           IN  /\ r.status # 201 => r.store = store
               /\ rp.status # 201 => rp.store = store
    /\ \A user \in Users, calc_id \in PathIds, body \in UpdateBodies :
           LET r  == update_calculation(store, now, user, calc_id, body)
               rp == update_calculation_patched(store, now, user, calc_id, body)
           IN  /\ r.status # 200 => r.store = store
               /\ rp.status # 200 => rp.store = store

C4_Witness ==
    /\ last.op = "update"
    /\ last.target = "own"
    /\ last.status \in {400, 500}
    /\ \E id \in DOMAIN store : store[id].updated_at < now

(* C5: every validation error of the arithmetic engine raised during a     *)
(* create or an update reaches the caller as a 4xx failure, never as a 5xx *)
(* failure.                                                                *)
C5_EngineErrorsAre4xx ==
    last.op \in {"create", "update"} => last.status < 500

(* C9: every stored record has at least two inputs, and a create or update *)
(* that carries fewer than two inputs is rejected as a client error and    *)
(* commits nothing.                                                        *)
C9_AtLeastTwoInputs ==
    /\ \A id \in DOMAIN store : Len(store[id].inputs) >= 2
    /\ \A user \in Users, body \in CreateBodies :
           Len(body.inputs) < 2 =>
               LET r  == create_calculation(store, nextId, now, user, body)
                   rp == create_calculation_patched(store, nextId, now, user, body)
               IN  /\ r.status \in 400..499 /\ r.store = store
                   /\ rp.status \in 400..499 /\ rp.store = store
    /\ \A user \in Users, calc_id \in PathIds, body \in UpdateBodies :
           (body.inputs # None /\ Len(body.inputs[1]) < 2) =>
               LET r  == update_calculation(store, now, user, calc_id, body)
                   rp == update_calculation_patched(store, now, user, calc_id, body)
               IN  /\ r.status \in 400..499 /\ r.store = store
                   /\ rp.status \in 400..499 /\ rp.store = store

C9_Witness ==
    /\ last.op = "update"
    /\ last.target = "own"
    /\ last.form = "short_inputs"
    /\ last.status = 422

(* C10: the operation tag is accepted in any letter case on create and is  *)
(* stored in lowercase: a create whose tag is one of the four tags in      *)
(* another letter case (with inputs the tag computes a result for) is      *)
(* accepted, and every stored type is one of the four lowercase tags.      *)
C10_TagCaseInsensitive ==
    /\ \A id \in DOMAIN store : store[id].type \in CalculationType
    /\ (last.op = "create" /\ last.form = "other_case_tag") => last.status = 201

(* C11: a successful update that carries a new operation tag, with or      *)
(* without new inputs, stores the new tag and stores the result computed   *)
(* from the new tag and the resulting inputs (the new inputs when the      *)
(* request carries them, the stored inputs otherwise).                     *)
C11_TagReplaced ==
    \A user \in Users, calc_id \in PathIds, body \in UpdateBodies :
        body.type # None =>
            LET r  == update_calculation(store, now, user, calc_id, body)
                rp == update_calculation_patched(store, now, user, calc_id, body)
                inputs == IF body.inputs # None THEN body.inputs[1] ELSE store[calc_id].inputs
            IN  /\ r.status = 200 =>
                       /\ r.store[calc_id].type = body.type[1]
                       /\ r.store[calc_id].inputs = inputs
                       /\ Ok(r.store[calc_id].result) = compute_result(body.type[1], inputs)
                /\ rp.status = 200 =>
                       /\ rp.store[calc_id].type = body.type[1]
                       /\ rp.store[calc_id].inputs = inputs
                       /\ Ok(rp.store[calc_id].result) = compute_result(body.type[1], inputs)

(* C12: every successful update sets the record's updated_at to the        *)
(* current time, which is never earlier than its previous updated_at,      *)
(* leaves the record's id, user_id and created_at as they were, and leaves *)
(* every other record of the store as it was.                              *)
C12_UpdateFrame ==
    \A user \in Users, calc_id \in PathIds, body \in UpdateBodies :
        \A r \in {update_calculation(store, now, user, calc_id, body),
                  update_calculation_patched(store, now, user, calc_id, body)} :
            r.status = 200 =>
                /\ r.store[calc_id].updated_at = now
                /\ r.store[calc_id].updated_at >= store[calc_id].updated_at
                /\ r.data = Some(r.store[calc_id])
                /\ r.store[calc_id].user_id = store[calc_id].user_id
                /\ r.store[calc_id].created_at = store[calc_id].created_at
                /\ DOMAIN r.store = DOMAIN store
                /\ \A other \in DOMAIN store \ {calc_id} : r.store[other] = store[other]

C12_Witness ==
    /\ last.op = "update"
    /\ last.status = 200
    /\ "updated_at" \in last.changed
    /\ last.changed \cap {"user_id", "created_at"} = {}
    /\ Cardinality(DOMAIN store) = 2

(* the ids of the records created and since deleted *)
Deleted == (1..(nextId - 1)) \ DOMAIN store

(* C19: a successful delete removes the record and leaves every other      *)
(* record as it was; a deleted record stays removed: no later request      *)
(* brings it back, every later get or delete of its id, and every later    *)
(* update of its id that passes request validation, by any caller is       *)
(* answered 404 'Calculation not found.' and changes nothing, and no       *)
(* listing, history or summary of any user names it.                       *)
C19_DeletedStaysDeleted ==
    /\ [](\A user \in Users, calc_id \in PathIds :
              \A r \in {delete_calculation(store, user, calc_id),
                        delete_calculation_patched(store, user, calc_id)} :
                  r.status = 204 =>
                      /\ DOMAIN r.store = DOMAIN store \ {calc_id}
                      /\ \A other \in DOMAIN r.store : r.store[other] = store[other])
    /\ [][\A id \in Deleted : id \notin DOMAIN store']_vars
    /\ [](\A id \in Deleted, user \in Users :
              /\ id \notin RowsNamed(store, user, now)
              /\ \A r \in {get_calculation(store, user, id),
                           get_calculation_patched(store, user, id),
                           delete_calculation(store, user, id),
                           delete_calculation_patched(store, user, id)} :
                     r = Resp(store, 404, NotFoundDetail, None)
              /\ \A body \in UpdateBodies :
                     \A r \in {update_calculation(store, now, user, id, body),
                               update_calculation_patched(store, now, user, id, body)} :
                         /\ r.store = store
                         /\ CalculationUpdate(body) => r = Resp(store, 404, NotFoundDetail, None))

C19_Witness ==
    /\ last.op \in {"get", "update", "delete"}
    /\ last.target = "missing"
    /\ last.status = 404
    /\ nextId = MaxRecs + 1
    /\ Cardinality(DOMAIN store) = MaxRecs - 1

----------------------------------------------------------------------------
(* The arithmetic engine on its own: one call of compute_result on inputs  *)
(* drawn from a bounded set                                                *)

MaxLen == 3

ComputeVals == {-1, 0, 1, 2, 3, 4, 5, 10, 100}

ComputeInputs == UNION {[1..n -> ComputeVals] : n \in 0..MaxLen}

KnownTags == {addition, subtraction, multiplication, division,
              Addition_Cap, SUBTRACTION_UP, MultiPlication_Mix, DIVISION_UP, Division_Cap}

UnknownTags == {modulus, ADD_UP, additions, <<>>}

ComputeTags == KnownTags \cup UnknownTags

ComputeResult ==
    /\ last.op = "none"
    /\ \E calc_type \in ComputeTags, inputs \in ComputeInputs :
           last' = [op |-> "compute", calc_type |-> calc_type, inputs |-> inputs,
                    out |-> compute_result(calc_type, inputs)]
    /\ UNCHANGED <<store, nextId, now, inflight>>

NextCompute == ComputeResult

SpecCompute == Init /\ [][NextCompute]_vars

----------------------------------------------------------------------------
(* Claims about compute_result, checked under SpecCompute *)

RECURSIVE FoldLeft(_, _, _)
FoldLeft(Op(_, _), s, n) ==
    IF n = 1 THEN R(s[1]) ELSE Op(FoldLeft(Op, s, n - 1), R(s[n]))

FoldOf(tag, inputs) ==
    IF tag = addition THEN FoldLeft(RatAdd, inputs, Len(inputs))
    ELSE IF tag = subtraction THEN FoldLeft(RatSub, inputs, Len(inputs))
    ELSE IF tag = multiplication THEN FoldLeft(RatMul, inputs, Len(inputs))
    ELSE FoldLeft(RatDiv, inputs, Len(inputs))

(* C6: for each of the four tags and every input list of length >= 2 (no   *)
(* zero at index >= 1 for division) compute returns the strict             *)
(* left-to-right fold ((i0 op i1) op i2) ...; addition [1,2,3] = 6,        *)
(* subtraction [10,2,3] = 5, multiplication [2,3,4] = 24 and division      *)
(* [100,2,5] = 10.                                                         *)
C6_LeftFold ==
    /\ ( /\ last.op = "compute"
         /\ last.calc_type \in CalculationType
         /\ Len(last.inputs) >= 2
         /\ last.calc_type = division => ~AnyZeroDivisor(last.inputs) )
       => last.out = Ok(FoldOf(last.calc_type, last.inputs))
    /\ (last.op = "compute" /\ last.calc_type = addition /\ last.inputs = <<1, 2, 3>>)
       => last.out = Ok(R(6))
    /\ (last.op = "compute" /\ last.calc_type = subtraction /\ last.inputs = <<10, 2, 3>>)
       => last.out = Ok(R(5))
    /\ (last.op = "compute" /\ last.calc_type = multiplication /\ last.inputs = <<2, 3, 4>>)
       => last.out = Ok(R(24))
    /\ (last.op = "compute" /\ last.calc_type = division /\ last.inputs = <<100, 2, 5>>)
       => last.out = Ok(R(10))

C6_Witness ==
    /\ last.op = "compute"
    /\ last.calc_type = subtraction
    /\ last.inputs = <<10, 2, 3>>
    /\ last.out = Ok(R(5))

(* C7: compute with tag division and at least two inputs fails with        *)
(* DivisionByZero exactly when some input at index >= 1 is zero; a zero at *)
(* index 0 alone gives a result.                                           *)
C7_DivisionByZero ==
    (last.op = "compute" /\ last.calc_type = division /\ Len(last.inputs) >= 2)
    => /\ (last.out = Err(DivisionByZero)) <=> (\E i \in 2..Len(last.inputs) : last.inputs[i] = 0)
       /\ (\A i \in 2..Len(last.inputs) : last.inputs[i] # 0) => last.out.ok
       /\ (last.out.ok /\ last.inputs[1] = 0) => last.out.val = R(0)

C7_Witness ==
    /\ last.op = "compute"
    /\ last.calc_type = division
    /\ last.inputs = <<0, 2>>
    /\ last.out = Ok(R(0))

(* the lowercase tag that a tag in some letter case stands for *)
LowercaseForm(tag) ==
    CASE tag \in {addition, Addition_Cap} -> addition
      [] tag \in {subtraction, SUBTRACTION_UP} -> subtraction
      [] tag \in {multiplication, MultiPlication_Mix} -> multiplication
      [] tag \in {division, DIVISION_UP, Division_Cap} -> division

(* C8: compute fails with InvalidInput whenever there are fewer than two   *)
(* inputs, whatever the tag; with two or more inputs it fails with         *)
(* UnsupportedOperation exactly when the tag is, in every letter case, none *)
(* of the four tags; a tag in another letter case gives what its lowercase *)
(* form gives.                                                             *)
C8_TagAndLengthErrors ==
    last.op = "compute" =>
        /\ Len(last.inputs) < 2 => last.out = Err(InvalidInput)
        /\ Len(last.inputs) >= 2 =>
               ((last.out = Err(UnsupportedOperation)) <=> (last.calc_type \in UnknownTags))
        /\ (Len(last.inputs) >= 2 /\ last.calc_type \in KnownTags) =>
               /\ LowercaseForm(last.calc_type) = division /\ AnyZeroDivisor(last.inputs)
                      => last.out = Err(DivisionByZero)
               /\ ~(LowercaseForm(last.calc_type) = division /\ AnyZeroDivisor(last.inputs))
                      => last.out = Ok(FoldOf(LowercaseForm(last.calc_type), last.inputs))

C8_Witness ==
    /\ last.op = "compute"
    /\ last.calc_type = MultiPlication_Mix
    /\ last.inputs = <<2, 3, 4>>
    /\ last.out = Ok(R(24))

----------------------------------------------------------------------------
(* The statistics functions on their own: one call of userSummary or       *)
(* operationSummary (SpecSummary), or of paginatedHistory (SpecHistory),   *)
(* on a table drawn from a bounded set of tables                           *)

(* the row a successful create at time t stores *)
Stored(user, type, inputs, t) ==
    create_calculation(<<>>, 1, t, user, [type |-> type, inputs |-> inputs]).data[1]

(* the length of the trend window *)
WindowTicks == TrendDays * TicksPerDay

StatStamps == 0..TicksPerDay

StatNows == {TicksPerDay, WindowTicks, WindowTicks + 1, WindowTicks + TicksPerDay}

StatRows == {Stored(user, type, <<4, 2>>, t) :
                user \in Users, type \in {addition, division}, t \in StatStamps}

(* tables of up to MaxRecs rows, created in the order of their ids *)
SmallTables ==
    {s \in UNION {[1..n -> StatRows] : n \in 0..MaxRecs} :
        \A i, j \in DOMAIN s : i < j => s[i].created_at <= s[j].created_at}

(* n rows of one user, row i created at time i and the first two rows at   *)
(* the same time, every third row a division                               *)
Bulk(n) ==
    [i \in 1..n |-> Stored("u1", IF i % 3 = 0 THEN division ELSE addition, <<4, 2>>,
                           IF i = 1 THEN 2 ELSE i)]

(* one more row than the summary lists / the 25 rows of three pages of 10 *)
SummaryTables == SmallTables \cup {Bulk(RecentLimit + 1)}

HistoryTables == SmallTables \cup {Bulk(25)}

(* the offset of the server's local time from UTC *)
UtcOffsets == {-1, 0, 1}

(* datetime.now(): the local time of the server at UTC time t *)
datetime_now(t, tz) == t + tz

HistPages == {0, 1, 2, 3}

HistSizes == {0, 1, 10, PageSizeMax, PageSizeMax + 1}

InitSummary ==
    /\ store \in SummaryTables
    /\ now \in StatNows
    /\ \A i \in DOMAIN store : store[i].created_at <= now
    /\ nextId = Len(store) + 1
    /\ last = [op |-> "none", target |-> "missing", form |-> "plain", status |-> 0, changed |-> {}]
    /\ inflight = [x \in Sessions |-> Idle]

InitHistory ==
    /\ store \in HistoryTables
    /\ now = WindowTicks
    /\ nextId = Len(store) + 1
    /\ last = [op |-> "none", target |-> "missing", form |-> "plain", status |-> 0, changed |-> {}]
    /\ inflight = [x \in Sessions |-> Idle]

CallUserSummary ==
    /\ last.op = "none"
    /\ \E user \in Users, tz \in UtcOffsets :
           \E out \in calculate_user_statistics(store, user, datetime_now(now, tz)) :
               last' = [op |-> "userSummary", user |-> user, tz |-> tz, out |-> out]
    /\ UNCHANGED <<store, nextId, now, inflight>>

CallOperationSummary ==
    /\ last.op = "none"
    /\ \E user \in Users, operation \in ReqTags :
           last' = [op |-> "operationSummary", user |-> user, operation |-> operation,
                    out |-> get_operation_statistics(store, user, operation)]
    /\ UNCHANGED <<store, nextId, now, inflight>>

CallPaginatedHistory ==
    /\ last.op = "none"
    /\ \E user \in Users, page \in HistPages, page_size \in HistSizes, operation \in Filters :
           \E out \in get_paginated_history(store, user, page, page_size, operation) :
               last' = [op |-> "paginatedHistory", user |-> user, page |-> page,
                        page_size |-> page_size, operation |-> operation, out |-> out,
                        status |-> get_history_status(page, page_size, out)]
    /\ UNCHANGED <<store, nextId, now, inflight>>

NextSummary ==
    \/ CallUserSummary
    \/ CallOperationSummary

SpecSummary == InitSummary /\ [][NextSummary]_vars

NextHistory == CallPaginatedHistory

SpecHistory == InitHistory /\ [][NextHistory]_vars

----------------------------------------------------------------------------
(* Claims about paginatedHistory, checked under SpecHistory *)

Min(a, b) == IF a < b THEN a ELSE b

Max(a, b) == IF a > b THEN a ELSE b

(* C13: paginatedHistory fails with InvalidPage when page < 1 and          *)
(* (page being valid) with InvalidPageSize when pageSize < 1 or            *)
(* pageSize > 100; the failure is the same whatever the table holds, and   *)
(* the route answers it with a 4xx status; for page >= 1 and               *)
(* 1 <= pageSize <= 100 the call does not fail.                            *)
C13_PageBounds ==
    last.op = "paginatedHistory" =>
        LET bad_page == last.page < 1
            bad_size == last.page_size < 1 \/ last.page_size > 100
        IN  /\ bad_page => last.out = Err(InvalidPage)
            /\ (~bad_page /\ bad_size) => last.out = Err(InvalidPageSize)
            /\ (bad_page \/ bad_size) =>
                   /\ get_paginated_history(<<>>, last.user, last.page, last.page_size, last.operation)
                          = {last.out}
                   /\ last.status \in 400..499
            /\ (~bad_page /\ ~bad_size) => (last.out.ok /\ last.status = 200)

C13_Witness ==
    /\ last.op = "paginatedHistory"
    /\ last.page = 1
    /\ last.page_size = 101
    /\ last.out = Err(InvalidPageSize)
    /\ OwnedBy(store, last.user) # {}

(* C14: for valid page and pageSize, total is the number of the caller's   *)
(* records that match the optional case-insensitive operation filter,      *)
(* total_pages is the ceiling of total / pageSize (0 when total is 0), and *)
(* calculations holds the records at positions (page-1)*pageSize ..        *)
(* page*pageSize - 1 of the matching records in descending order of        *)
(* creation time (none when page > total_pages); over 25 records with      *)
(* pageSize 10, page 1 has 10 records, total is 25, total_pages is 3 and   *)
(* page 3 has the remaining 5.                                             *)
C14_HistoryPage ==
    (last.op = "paginatedHistory" /\ last.out.ok) =>
        LET v == last.out.val
            matching == {i \in DOMAIN store :
                            /\ store[i].user_id = last.user
                            /\ last.operation # None =>
                                   lower(store[i].type) = lower(last.operation[1])}
            total == Cardinality(matching)
            k == (last.page - 1) * last.page_size
            shown == v.calculations
        IN  /\ v.total = total
            /\ v.page = last.page
            /\ v.page_size = last.page_size
            /\ v.total_pages * last.page_size >= total
            /\ (v.total_pages - 1) * last.page_size < total
            /\ total = 0 => v.total_pages = 0
            /\ Len(shown) = Min(last.page_size, Max(0, total - k))
            /\ last.page > v.total_pages => shown = <<>>
            /\ \A i, j \in DOMAIN shown : i # j => shown[i].id # shown[j].id
            /\ \A i \in DOMAIN shown :
                   /\ shown[i].id \in matching
                   /\ \A f \in Fields : shown[i][f] = store[shown[i].id][f]
                   /\ Cardinality({m \in matching : store[m].created_at > shown[i].created_at})
                          <= k + i - 1
                   /\ Cardinality({m \in matching : store[m].created_at >= shown[i].created_at})
                          >= k + i
            /\ ( /\ store = Bulk(25)
                 /\ last.user = "u1"
                 /\ last.operation = None
                 /\ last.page_size = 10 )
               => /\ v.total = 25
                  /\ v.total_pages = 3
                  /\ last.page = 1 => Len(shown) = 10
                  /\ last.page = 3 => Len(shown) = 5

C14_Witness ==
    /\ last.op = "paginatedHistory"
    /\ store = Bulk(25)
    /\ last.operation = None
    /\ last.page = 3
    /\ last.page_size = 10
    /\ last.out.ok
    /\ Len(last.out.val.calculations) = 5
    /\ last.out.val.total_pages = 3

----------------------------------------------------------------------------
(* Claims about userSummary and operationSummary, checked under SpecSummary *)

RECURSIVE SumCounts(_, _)
SumCounts(f, keys) ==
    IF keys = {} THEN 0
    ELSE LET key == CHOOSE x \in keys : TRUE IN f[key] + SumCounts(f, keys \ {key})

(* C15: userSummary for a user with no records returns total_calculations  *)
(* 0, empty operations_breakdown, recent_calculations and                  *)
(* calculations_by_day and null averages and most_used_operation;          *)
(* operationSummary for a tag no record of the user carries returns count  *)
(* 0 and null average_inputs_count, average_result, min_result and         *)
(* max_result; neither fails.                                              *)
C15_EmptySummaries ==
    /\ ( /\ last.op = "userSummary"
         /\ \A i \in DOMAIN store : store[i].user_id # last.user )
       => last.out = [total_calculations |-> 0, operations_breakdown |-> <<>>,
                      average_inputs_count |-> None, average_result |-> None,
                      most_used_operation |-> None, recent_calculations |-> <<>>,
                      calculations_by_day |-> <<>>]
    /\ ( /\ last.op = "operationSummary"
         /\ \A i \in DOMAIN store :
                store[i].user_id = last.user => store[i].type # lower(last.operation) )
       => last.out = [count |-> 0, average_inputs_count |-> None, average_result |-> None,
                      min_result |-> None, max_result |-> None]

C15_Witness ==
    /\ last.op = "operationSummary"
    /\ last.operation = division
    /\ last.out.count = 0
    /\ \E i \in DOMAIN store : store[i].user_id = last.user
    /\ \E i \in DOMAIN store : store[i].user_id # last.user /\ store[i].type = division

(* C16: for a user with at least one record, operations_breakdown maps     *)
(* exactly the tags present among the user's records to their counts, the  *)
(* counts sum to total_calculations, most_used_operation is a tag of the   *)
(* largest count, and recent_calculations holds the                        *)
(* min(10, total_calculations) most recently created records of the user,  *)
(* newest first.                                                           *)
C16_SummaryContents ==
    (last.op = "userSummary" /\ \E i \in DOMAIN store : store[i].user_id = last.user) =>
        LET v == last.out
            owned == {i \in DOMAIN store : store[i].user_id = last.user}
            counts == v.operations_breakdown
            recent == v.recent_calculations
            listed == {recent[i].id : i \in DOMAIN recent}
        IN  /\ v.total_calculations = Cardinality(owned)
            /\ DOMAIN counts = {store[i].type : i \in owned}
            /\ \A tag \in DOMAIN counts :
                   counts[tag] = Cardinality({i \in owned : store[i].type = tag})
            /\ SumCounts(counts, DOMAIN counts) = v.total_calculations
            /\ v.most_used_operation # None
            /\ v.most_used_operation[1] \in DOMAIN counts
            /\ \A tag \in DOMAIN counts : counts[tag] <= counts[v.most_used_operation[1]]
            /\ Len(recent) = Min(10, v.total_calculations)
            /\ listed \subseteq owned
            /\ Cardinality(listed) = Len(recent)
            /\ \A i \in DOMAIN recent : recent[i] = Serialise(store, recent[i].id)
            /\ \A i, j \in DOMAIN recent : i < j => recent[i].created_at >= recent[j].created_at
            /\ \A i \in DOMAIN recent, m \in owned \ listed :
                   store[m].created_at <= recent[i].created_at

C16_Witness ==
    /\ last.op = "userSummary"
    /\ last.user = "u1"
    /\ store = Bulk(RecentLimit + 1)
    /\ last.out.total_calculations = 11
    /\ Len(last.out.recent_calculations) = 10
    /\ last.out.most_used_operation = Some(addition)

(* C17: calculations_by_day maps each calendar date to the number of the   *)
(* user's records created on that date, counting exactly the records       *)
(* created within the 30 days that end at the time of the call: a record   *)
(* created within the last 30 days is counted, a record created more than  *)
(* 30 days before the call is not, and the counts sum to at most           *)
(* total_calculations.                                                     *)
C17_TrailingWindow ==
    (last.op = "userSummary" /\ last.out.total_calculations > 0) =>
        LET by_day == last.out.calculations_by_day
            owned == {i \in DOMAIN store : store[i].user_id = last.user}
            within == {i \in owned : now - store[i].created_at <= WindowTicks}
        IN  /\ DOMAIN by_day = {DateOf(store[i].created_at) : i \in within}
            /\ \A d \in DOMAIN by_day :
                   by_day[d] = Cardinality({i \in within : DateOf(store[i].created_at) = d})
            /\ SumCounts(by_day, DOMAIN by_day) <= last.out.total_calculations

----------------------------------------------------------------------------
(* Update requests served at the same time (SpecUpdates): each request     *)
(* runs in a database session of its own, loads the row with its query,    *)
(* and later computes, assigns and commits. The commit writes the columns  *)
(* whose assigned value differs from the loaded one; the session takes no  *)
(* row lock and the row carries no version counter.                        *)

(* db.commit() of a session that loaded the row `loaded` and holds it as   *)
(* `dirty`: UPDATE ... SET <the changed columns> WHERE id = calc_id        *)
Flush(s, calc_id, loaded, dirty) ==
    IF calc_id \notin DOMAIN s THEN s
    ELSE [s EXCEPT ![calc_id] =
              [f \in Fields |-> IF dirty[f] # loaded[f] THEN dirty[f] ELSE @[f]]]

(* the table as the session sees it: the row its query loaded, if any *)
Seen(calc_id, row) == [i \in (IF row = None THEN {} ELSE {calc_id}) |-> row[1]]

Routes == {"main", "patched"}

RaceInputs == {<<4, 2>>, <<2, 4>>, <<1, 2>>}

RaceBodies == [type : {None, Some(addition), Some(division)},
               inputs : {None} \cup {Some(i) : i \in RaceInputs}]

(* one record of u1, created by an earlier request *)
InitUpdates ==
    /\ \E type \in {addition, division} : store = <<Stored("u1", type, <<4, 2>>, 0)>>
    /\ nextId = 2
    /\ now = 1
    /\ last = [op |-> "none", target |-> "missing", form |-> "plain", status |-> 0, changed |-> {}]
    /\ inflight = [x \in Sessions |-> Idle]

(* an update request arrives and its handler runs up to the query *)
UpdateQuery ==
    \E x \in Sessions, route \in Routes, body \in RaceBodies :
        /\ inflight[x] = Idle
        /\ \A y \in Sessions : inflight[y] # Idle => inflight[y].route = route
        /\ inflight' = [inflight EXCEPT ![x] =
               [pc |-> "loaded", route |-> route, user |-> "u1", calc_id |-> 1, body |-> body,
                row |-> QueryOwned(store, 1, "u1")]]
        /\ UNCHANGED <<store, nextId, now, last>>

(* the handler runs on from the query: it computes on the loaded row and   *)
(* commits                                                                 *)
UpdateCommit ==
    \E x \in Sessions :
        /\ inflight[x].pc = "loaded"
        /\ LET r   == inflight[x]
               out == IF r.route = "main"
                      THEN update_calculation(Seen(r.calc_id, r.row), now, r.user, r.calc_id, r.body)
                      ELSE update_calculation_patched(Seen(r.calc_id, r.row), now, r.user,
                                                      r.calc_id, r.body)
           IN  /\ store' = IF out.status = 200
                           THEN Flush(store, r.calc_id, r.row[1], out.store[r.calc_id])
                           ELSE store
               /\ inflight' = [inflight EXCEPT ![x] =
                      [pc |-> "done", route |-> r.route, status |-> out.status]]
        /\ UNCHANGED <<nextId, now, last>>

NextUpdates ==
    \/ UpdateQuery
    \/ UpdateCommit

SpecUpdates == InitUpdates /\ [][NextUpdates]_vars

(* C18: whatever the interleaving of update requests of one owner on one   *)
(* record, once every request has committed the stored result is           *)
(* compute(stored type, stored inputs).                                    *)
C18_ConcurrentUpdates ==
    (\A x \in Sessions : inflight[x].pc # "loaded") =>
        \A id \in DOMAIN store :
            compute_result(store[id].type, store[id].inputs) = Ok(store[id].result)

----------------------------------------------------------------------------
(* Aggregation calls served while create and delete requests commit        *)
(* (SpecReads): calculate_user_statistics and get_paginated_history issue  *)
(* their queries one after another, and each query reads the rows          *)
(* committed at the time it runs.                                          *)

Readers == {"a"}

WriteBodies == [type : {addition, division}, inputs : {<<4, 2>>}]

ReadPages == {1, 2}

ReadSizes == {1, 2}

(* a create request served from arrival to commit *)
CommitCreate ==
    \E user \in Users, body \in WriteBodies :
        LET out == create_calculation(store, nextId, now, user, body) IN
        /\ nextId <= MaxRecs
        /\ out.status = 201
        /\ store' = out.store
        /\ nextId' = nextId + 1
        /\ UNCHANGED <<now, last, inflight>>

(* a delete request served from arrival to commit *)
CommitDelete ==
    \E user \in Users, calc_id \in DOMAIN store :
        LET out == delete_calculation(store, user, calc_id) IN
        /\ out.status = 204
        /\ store' = out.store
        /\ UNCHANGED <<nextId, now, last, inflight>>

(* calculate_user_statistics, first query: all rows of the user; the       *)
(* total, the breakdown, the averages and the most used tag come from      *)
(* these rows, and the call returns here when there are none               *)
SummaryRows ==
    \E x \in Readers, user \in Users :
        /\ inflight[x].pc \in {"idle", "done"}
        /\ \E rows \in RowOrders(OwnedBy(store, user)) :
               inflight' = [inflight EXCEPT ![x] =
                   [pc |-> IF Len(rows) = 0 THEN "done" ELSE "recent",
                    op |-> "userSummary", user |-> user,
                    response |-> [user_statistics(store, user, datetime_now(now, 0), rows, <<>>)
                                     EXCEPT !.calculations_by_day = <<>>]]]
        /\ UNCHANGED <<store, nextId, now, last>>

(* second query: the ten most recent rows *)
SummaryRecent ==
    \E x \in Readers :
        /\ inflight[x].pc = "recent"
        /\ \E desc \in ByCreatedDesc(store, OwnedBy(store, inflight[x].user)) :
               LET recent == OffsetLimit(desc, 0, RecentLimit) IN
               inflight' = [inflight EXCEPT
                   ![x].pc = "by_day",
                   ![x].response.recent_calculations =
                       [i \in DOMAIN recent |-> Serialise(store, recent[i])]]
        /\ UNCHANGED <<store, nextId, now, last>>

(* third query, in get_calculations_by_day; the call returns *)
SummaryByDay ==
    \E x \in Readers :
        /\ inflight[x].pc = "by_day"
        /\ inflight' = [inflight EXCEPT
               ![x].pc = "done",
               ![x].response.calculations_by_day =
                   get_calculations_by_day(store, inflight[x].user, TrendDays, datetime_now(now, 0))]
        /\ UNCHANGED <<store, nextId, now, last>>

(* get_paginated_history, first query: query.count() *)
HistoryCount ==
    \E x \in Readers, user \in Users, page \in ReadPages, page_size \in ReadSizes :
        /\ inflight[x].pc \in {"idle", "done"}
        /\ \E out \in get_paginated_history(store, user, page, page_size, None) :
               inflight' = [inflight EXCEPT ![x] =
                   [pc |-> "page", op |-> "paginatedHistory", user |-> user,
                    response |-> [out.val EXCEPT !.calculations = <<>>]]]
        /\ UNCHANGED <<store, nextId, now, last>>

(* second query: the rows of the page; the call returns *)
HistoryPage ==
    \E x \in Readers :
        /\ inflight[x].pc = "page"
        /\ LET r == inflight[x].response IN
           \E out \in get_paginated_history(store, inflight[x].user, r.page, r.page_size, None) :
               inflight' = [inflight EXCEPT
                   ![x].pc = "done",
                   ![x].response.calculations = out.val.calculations]
        /\ UNCHANGED <<store, nextId, now, last>>

NextReads ==
    \/ CommitCreate
    \/ CommitDelete
    \/ SummaryRows
    \/ SummaryRecent
    \/ SummaryByDay
    \/ HistoryCount
    \/ HistoryPage

SpecReads == Init /\ [][NextReads]_vars

(* C20: every aggregation response is consistent in itself, also when      *)
(* create or delete requests of the same user commit between the queries   *)
(* of the call: in userSummary recent_calculations has                     *)
(* min(10, total_calculations) entries and the calculations_by_day counts  *)
(* sum to at most total_calculations; in paginatedHistory calculations has *)
(* min(pageSize, max(0, total - (page-1)*pageSize)) entries.               *)
C20_ConsistentResponse ==
    \A x \in Readers :
        inflight[x].pc = "done" =>
            LET v == inflight[x].response IN
            /\ inflight[x].op = "userSummary" =>
                   /\ Len(v.recent_calculations) = Min(10, v.total_calculations)
                   /\ SumCounts(v.calculations_by_day, DOMAIN v.calculations_by_day)
                          <= v.total_calculations
            /\ inflight[x].op = "paginatedHistory" =>
                   Len(v.calculations) = Min(v.page_size, Max(0, v.total - (v.page - 1) * v.page_size))

====
